---- MODULE Spec2Model ----
(***************************************************************************)
(* Model of pdf_ocr_md: the per-document pipeline process_pdf (main.py),   *)
(* its nested helpers _finalize_page, _analyze_payload and                 *)
(* _process_ocr_batch, the trigger classifier (smart_trigger.py), the page *)
(* extraction (pdf_extract.py) and the document assembly (writer.py,       *)
(* transform.py).                                                          *)
(*                                                                         *)
(* A Python str is a sequence of one-token strings; " " and "\n" are the   *)
(* whitespace tokens.  The OCR service and the aggregate service are       *)
(* opaque: each call nondeterministically fails or returns.                *)
(***************************************************************************)
EXTENDS Integers, Sequences, FiniteSets, TLC

\* ---------------------------------------------------------------- bounds
MaxPages == 2
MaxWorkers == 2
MaxCalls == 3
MaxDocs == 2

VARIABLES
  \* arguments of process_pdf
  source, images_match, min_native_chars, workers, native_fast_path,
  skip_aggregate_cleanup, dry_run, tui,
  \* locals of process_pdf
  pc, payloads, idx, needs_ocr, native_fast_path_pages,
  analyses_by_page, finalized_all_pages, finalized_ocr_pages,
  first_failures, first_error_by_page, retry_failures,
  analyses, cleaned_aggregate, output, result,
  \* locals of _process_ocr_batch and the state of its ThreadPoolExecutor
  batch, is_retry, failures, work_queue, in_flight, done_futures,
  \* the progress sink (OcrPipelineTui), per page where the sink counts per pdf
  started, pdf_all, global_slides, pdf_ocr, finished,
  \* the OCR service as seen from outside: outcome of each call made
  ocr_log,
  \* the aggregate service as seen from outside: what became of line 252
  aggregate_log,
  \* how many times line 116 has written the store entry of each page
  store_writes,
  \* the pages handed to should_call_vision_ocr, in call order
  classified,
  \* threads calling _finalize_page directly, and the calls they completed
  callers, fin_calls, fin_done,
  \* what should_call_vision_ocr returned when called on its own
  trigger_decision,
  \* the locals of main, its position, and the calls it made
  main_run

args == <<source, images_match, min_native_chars, workers, native_fast_path,
          skip_aggregate_cleanup, dry_run, tui>>
store == <<analyses_by_page, finalized_all_pages, finalized_ocr_pages, store_writes>>
sink == <<pdf_all, global_slides, pdf_ocr>>
pool == <<work_queue, in_flight, done_futures>>
batchv == <<batch, is_retry, failures>>
passes == <<first_failures, first_error_by_page, retry_failures>>
tail == <<analyses, cleaned_aggregate, output, result, aggregate_log>>
queues == <<payloads, needs_ocr, native_fast_path_pages, classified>>
harness == <<callers, fin_calls, fin_done, trigger_decision, main_run>>
vars == <<args, pc, idx, queues, store, passes, tail, batchv, pool,
          started, sink, finished, ocr_log, harness>>

\* ------------------------------------------------------- strings and lists
\* Python's None, told apart from every str
None == <<"<None>">>

\* the OcrPipelineTui object
Tui == <<"tui">>

Pages == 1..(MaxPages + 1)

Tok(n) == CASE n = 0 -> "0" [] n = 1 -> "1" [] n = 2 -> "2" [] n = 3 -> "3"
            [] n = 4 -> "4" [] OTHER -> "9"

IsSpace(c) == c \in {" ", "\n"}

SetMin(S) == CHOOSE x \in S : \A y \in S : x <= y
SetMax(S) == CHOOSE x \in S : \A y \in S : y <= x

\* str.lstrip()
RECURSIVE LStrip(_)
LStrip(s) == IF Len(s) > 0 /\ IsSpace(s[1]) THEN LStrip(Tail(s)) ELSE s

\* str.rstrip()
RECURSIVE RStrip(_)
RStrip(s) ==
  IF Len(s) > 0 /\ IsSpace(s[Len(s)]) THEN RStrip(SubSeq(s, 1, Len(s) - 1)) ELSE s

\* str.strip(): drop leading and trailing whitespace
Strip(s) == LStrip(RStrip(s))

\* " ".join(text.split()): whitespace runs collapsed, ends trimmed.  The text
\* is halved at each step, which keeps the recursion shallow on a long text.
RECURSIVE CollapseRange(_, _, _)
CollapseRange(s, lo, hi) ==
  IF lo > hi THEN <<>>
  ELSE IF lo = hi
       THEN IF IsSpace(s[lo]) /\ lo < Len(s) /\ IsSpace(s[lo + 1]) THEN <<>>
            ELSE <<(IF IsSpace(s[lo]) THEN " " ELSE s[lo])>>
  ELSE LET mid == (lo + hi) \div 2
       IN CollapseRange(s, lo, mid) \o CollapseRange(s, mid + 1, hi)

Collapse(s) == CollapseRange(s, 1, Len(s))

Compact(s) == Collapse(Strip(s))

\* Python's "a or b" on strings
OrElse(a, b) == IF a /= <<>> THEN a ELSE b

\* sep.join(parts)
RECURSIVE Join(_, _)
Join(sep, parts) ==
  IF Len(parts) = 0 THEN <<>>
  ELSE IF Len(parts) = 1 THEN parts[1]
  ELSE parts[1] \o sep \o Join(sep, Tail(parts))

\* dict[key] = value
Put(d, k, v) == [q \in (DOMAIN d) \cup {k} |-> IF q = k THEN v ELSE d[q]]

EmptyDict == [q \in {} |-> None]

\* sorted(keys) as a list
RECURSIVE SortedSeq(_)
SortedSeq(S) ==
  IF S = {} THEN <<>> ELSE <<SetMin(S)>> \o SortedSeq(S \ {SetMin(S)})

\* ------------------------------------------------------------ transform.py
PageAnalysis(page_number, retranscribed_text, math_markdown, image_descriptions) ==
  [page_number |-> page_number,
   retranscribed_text |-> retranscribed_text,
   math_markdown |-> math_markdown,
   image_descriptions |-> image_descriptions]

\* ---------------------------------------------------------- pdf_extract.py
\* A source document: the raw text and the rendered image of each page.  The
\* image is kept as the verdict of the pixel statistics taken from it.
RawTexts == { <<" ">>, <<"a", "b", " ">>, <<"a", "=">> }
PageSources == [text : RawTexts, image : {[visual |-> FALSE]}]

_extract_native_text(src) == [i \in 1..Len(src) |-> Strip(src[i].text)]

EnumerateStart == 1

PagePayload(page_number, total_pages, native_text, image_png) ==
  [page_number |-> page_number, total_pages |-> total_pages,
   native_text |-> native_text, image_png |-> image_png]

extract_page_payloads(src) ==
  LET native_texts == _extract_native_text(src)
      total_pages == Len(native_texts)
  IN [i \in 1..total_pages |->
        PagePayload(i - 1 + EnumerateStart, total_pages, native_texts[i], src[i].image)]

is_native_text_usable(text, min_chars) == Len(Compact(text)) >= min_chars

\* -------------------------------------------------------- smart_trigger.py
MathTokens == {"="}
DiagramTokens == {"figure"}
VisualMaxChars == 450

has_math_indicators(text) ==
  /\ Strip(text) /= <<>>
  /\ \E i \in 1..Len(text) : text[i] \in MathTokens

has_diagram_keywords(text) ==
  /\ Strip(text) /= <<>>
  /\ \E i \in 1..Len(text) : text[i] \in DiagramTokens

has_visual_structure(image_png) == image_png.visual

\* the diagram rule tried before the math rule
should_call_vision_ocr_DiagramBeforeMath(native_text, image_png, min_chars) ==
  LET compact == Compact(native_text)
      native_len == Len(compact)
  IN IF native_len < min_chars THEN <<TRUE, "weak_native_text">>
     ELSE IF has_diagram_keywords(compact) THEN <<TRUE, "diagram_keyword_detected">>
     ELSE IF has_math_indicators(compact) THEN <<TRUE, "math_detected">>
     ELSE IF native_len < VisualMaxChars /\ has_visual_structure(image_png)
          THEN <<TRUE, "visual_structure_detected">>
     ELSE <<FALSE, "native_text_only">>

\* smart_trigger.py lines 61-81: <<use_vision, reason>>
should_call_vision_ocr(native_text, image_png, min_chars) ==
  LET compact == Compact(native_text)
      native_len == Len(compact)
  IN IF native_len < min_chars THEN <<TRUE, "weak_native_text">>
     ELSE IF has_math_indicators(compact) THEN <<TRUE, "math_detected">>
     ELSE IF has_diagram_keywords(compact) THEN <<TRUE, "diagram_keyword_detected">>
     ELSE IF native_len < VisualMaxChars /\ has_visual_structure(image_png)
          THEN <<TRUE, "visual_structure_detected">>
     ELSE <<FALSE, "native_text_only">>

\* -------------------------------------------------------- ollama_client.py
\* What the service does with one call: the call fails, or it replies with a
\* payload whose text is blank or not.  A reply is tagged with the page and
\* the attempt (1 = first pass, 2 = retry) it answers.
OcrOutcomes == {"fail", "blank", "text"}

Attempt(retry) == IF retry THEN 2 ELSE 1

OcrReply(p, k, kind) ==
  [retranscribed_text |-> IF kind = "text" THEN <<" ", "o", Tok(p), Tok(k)>> ELSE <<" ">>,
   math_markdown |-> << <<"m", Tok(p), Tok(k)>> >>,
   image_descriptions |-> << <<"i", Tok(p), Tok(k), " ">> >>]

OcrError(p, k) == <<"E", Tok(p), Tok(k)>>

\* keeps the non-blank entries of a list, stripped
StripEntries(items) ==
  LET F[i \in 0..Len(items)] ==
        IF i = 0 THEN <<>>
        ELSE IF Strip(items[i]) /= <<>> THEN Append(F[i - 1], Strip(items[i]))
        ELSE F[i - 1]
  IN F[Len(items)]

\* OllamaClient.analyze_page: [ok, value] with value the OCRResponse or the error
analyze_page(page_number, k, kind) ==
  IF kind = "fail" THEN [ok |-> FALSE, value |-> OcrError(page_number, k)]
  ELSE LET payload == OcrReply(page_number, k, kind)
       IN [ok |-> TRUE,
           value |-> [retranscribed_text |-> Strip(payload.retranscribed_text),
                      math_markdown |-> StripEntries(payload.math_markdown),
                      image_descriptions |-> StripEntries(payload.image_descriptions)]]

\* ------------------------------------------------- main.py: nested helpers
NoNativeText == <<"(No native text detected.)">>
FastPathNote == <<"Used native PDF text fast path (vision OCR skipped).">>
NoTextAtAll == <<"(Slide OCR failed and no native PDF text was available.)">>
FirstErrorPrefix == <<"OCR failed after retry. First error: ">>
RetryErrorPrefix == <<"Retry error: ">>

_build_native_only_analysis(payload) ==
  LET retranscribed == OrElse(Strip(payload.native_text), NoNativeText)
  IN PageAnalysis(payload.page_number, retranscribed, <<>>, <<FastPathNote>>)

\* line 144 taking the native text first
_analyze_payload_NativeFirst(payload, k, kind) ==
  LET ocr == analyze_page(payload.page_number, k, kind)
  IN IF ~ocr.ok THEN ocr
     ELSE LET retranscribed == OrElse(Strip(payload.native_text),
                                      Strip(ocr.value.retranscribed_text))
          IN [ok |-> TRUE,
              value |-> PageAnalysis(payload.page_number, retranscribed,
                                     ocr.value.math_markdown,
                                     ocr.value.image_descriptions)]

\* [ok, value]: the PageAnalysis, or the exception analyze_page raised
_analyze_payload(payload, k, kind) ==
  LET ocr == analyze_page(payload.page_number, k, kind)
  IN IF ~ocr.ok THEN ocr
     ELSE LET retranscribed == OrElse(Strip(ocr.value.retranscribed_text),
                                      Strip(payload.native_text))
          IN [ok |-> TRUE,
              value |-> PageAnalysis(payload.page_number, retranscribed,
                                     ocr.value.math_markdown,
                                     ocr.value.image_descriptions)]

\* the context sent with the request (main.py line 136)
native_context(payload, min_chars) ==
  IF is_native_text_usable(payload.native_text, min_chars)
  THEN payload.native_text ELSE <<>>

\* the retry error written into both diagnostic entries
FallbackAnalysis_RetryErrorTwice(payload, first_error, retry_error) ==
  LET fallback_text == OrElse(Strip(payload.native_text), NoTextAtAll)
  IN PageAnalysis(payload.page_number, fallback_text, <<>>,
                  << FirstErrorPrefix \o retry_error,
                     RetryErrorPrefix \o retry_error >>)

\* lines 228-238
FallbackAnalysis(payload, first_error, retry_error) ==
  LET fallback_text == OrElse(Strip(payload.native_text), NoTextAtAll)
  IN PageAnalysis(payload.page_number, fallback_text, <<>>,
                  << FirstErrorPrefix \o first_error,
                     RetryErrorPrefix \o retry_error >>)

\* the values of --min-native-chars tried; page texts are a few tokens long
MinNativeCharsChoices == {1}

\* max(2, workers) written for max(1, workers)
max_workers_AtLeastTwo == IF workers > 2 THEN workers ELSE 2

\* line 157
max_workers == IF workers > 1 THEN workers ELSE 1

\* ---------------------------------------------------------- _finalize_page
\* The store and the sink as one value, so that the statements of
\* _finalize_page can run one at a time or all at once.
St == [abp |-> analyses_by_page, all |-> finalized_all_pages,
       ocr |-> finalized_ocr_pages, pa |-> pdf_all, gs |-> global_slides,
       po |-> pdf_ocr, w |-> store_writes]

SetSt(s) ==
  /\ analyses_by_page' = s.abp
  /\ finalized_all_pages' = s.all
  /\ finalized_ocr_pages' = s.ocr
  /\ pdf_all' = s.pa
  /\ global_slides' = s.gs
  /\ pdf_ocr' = s.po
  /\ store_writes' = s.w

\* line 116 placed under "if tui is not None"
FinStore_SkippedWithoutSink(s, p, analysis) ==
  IF tui /= None
  THEN [s EXCEPT !.abp = Put(s.abp, p, analysis), !.w[p] = @ + 1] ELSE s

FinStore(s, p, analysis) == [s EXCEPT !.abp = Put(s.abp, p, analysis), !.w[p] = @ + 1]

FinAllAbsent(s, p) == p \notin s.all

FinAddAll(s, p) == [s EXCEPT !.all = @ \cup {p}]

FinSignalAll(s, p) ==
  IF tui /= None THEN [s EXCEPT !.pa[p] = @ + 1, !.gs = @ + 1] ELSE s

\* line 122 without its membership test
FinOcrAbsent_NoMembershipTest(s, p, from_ocr) == from_ocr

FinOcrAbsent(s, p, from_ocr) == from_ocr /\ p \notin s.ocr

\* line 123 moving the page from the all-pages set to the OCR set
FinAddOcr_MovesPage(s, p) == [s EXCEPT !.ocr = @ \cup {p}, !.all = @ \ {p}]

FinAddOcr(s, p) == [s EXCEPT !.ocr = @ \cup {p}]

\* line 125 calling advance_pdf_all and advance_global_slides a second time
FinSignalOcr_AdvancesAll(s, p) ==
  IF tui /= None THEN [s EXCEPT !.pa[p] = @ + 1, !.gs = @ + 1] ELSE s

FinSignalOcr(s, p) ==
  IF tui /= None THEN [s EXCEPT !.po[p] = @ + 1] ELSE s

\* one whole call, run by one thread with no other thread in between
_finalize_page(s, payload, analysis, from_ocr) ==
  LET p == payload.page_number
      s1 == FinStore(s, p, analysis)
      s2 == IF FinAllAbsent(s1, p) THEN FinSignalAll(FinAddAll(s1, p), p) ELSE s1
      s3 == IF FinOcrAbsent(s2, p, from_ocr) THEN FinSignalOcr(FinAddOcr(s2, p), p) ELSE s2
  IN s3

\* ------------------------------------------- transform.py and writer.py
NoTextDetected == <<"(No text detected)">>
NoMath == <<"(No explicit math content detected)">>
NoImages == <<"- (No meaningful image content detected)">>
NoAggregate == <<"(No aggregate text available)">>
NL == <<"\n">>
BlankLine == <<"\n", "\n">>

\* str.splitlines(): lines of s[i..], cur being the line read so far
RECURSIVE SplitFrom(_, _, _)
SplitFrom(s, i, cur) ==
  IF i > Len(s) THEN (IF cur = <<>> THEN <<>> ELSE <<cur>>)
  ELSE IF s[i] = "\n" THEN <<cur>> \o SplitFrom(s, i + 1, <<>>)
  ELSE SplitFrom(s, i + 1, Append(cur, s[i]))

SplitLines(s) == SplitFrom(s, 1, <<>>)

_normalize_multiline(text) ==
  LET raw == SplitLines(text)
      lines == [i \in 1..Len(raw) |-> RStrip(raw[i])]
  IN Strip(Join(NL, lines))

normalize_math_entries(entries) ==
  LET F[i \in 0..Len(entries)] ==
        IF i = 0 THEN <<>>
        ELSE LET cleaned == _normalize_multiline(entries[i])
             IN IF cleaned = <<>> THEN F[i - 1]
                ELSE IF cleaned[1] = "$" /\ cleaned[Len(cleaned)] = "$"
                     THEN Append(F[i - 1], cleaned)
                ELSE Append(F[i - 1], <<"$$", "\n">> \o cleaned \o <<"\n", "$$">>)
  IN F[Len(entries)]

build_page_markdown(analysis) ==
  LET text_block == OrElse(_normalize_multiline(analysis.retranscribed_text), NoTextDetected)
      math_entries == normalize_math_entries(analysis.math_markdown)
      image_entries == StripEntries(analysis.image_descriptions)
      parts == << <<"## Slide ", Tok(analysis.page_number)>>,
                  <<"### Retranscribed Text">>, text_block, <<"### Math">> >>
               \o (IF math_entries /= <<>> THEN math_entries ELSE <<NoMath>>)
               \o << <<"### Images">> >>
               \o (IF image_entries /= <<>>
                   THEN [i \in 1..Len(image_entries) |-> <<"- ">> \o image_entries[i]]
                   ELSE <<NoImages>>)
  IN Strip(Join(BlankLine, parts))

build_fallback_aggregate(pages) ==
  LET F[i \in 0..Len(pages)] ==
        IF i = 0 THEN <<>>
        ELSE LET text == _normalize_multiline(pages[i].retranscribed_text)
             IN IF text /= <<>> THEN Append(F[i - 1], text) ELSE F[i - 1]
      chunks == F[Len(pages)]
  IN IF chunks = <<>> THEN NoAggregate ELSE Join(BlankLine, chunks)

\* the non-blank sections, stripped
StripSections(sections) == StripEntries(sections)

\* line 21: the body of the Clean Aggregate section
AggregateBody(page_analyses, aggregate) ==
  IF aggregate /= None /\ aggregate /= <<>>
  THEN Strip(aggregate) ELSE build_fallback_aggregate(page_analyses)

\* lines 24-25: one section per page
PageSections(page_analyses) ==
  [i \in 1..Len(page_analyses) |-> build_page_markdown(page_analyses[i])]

\* lines 18-27, given the aggregate body and the page sections
DocumentOf(body, page_sections) ==
  LET sections == << <<"# OCR Transcript">>, <<"## Clean Aggregate">>, body,
                     <<"## Per-Slide Details">> >> \o page_sections
  IN Join(BlankLine, StripSections(sections)) \o NL

build_document_markdown(page_analyses, aggregate) ==
  DocumentOf(AggregateBody(page_analyses, aggregate), PageSections(page_analyses))

\* OllamaClient.clean_aggregate_markdown: [ok, value]
AggregateOutcomes == {"fail", "blank", "text"}

clean_aggregate_markdown(page_text_blocks, kind) ==
  LET joined == Join(BlankLine, StripEntries(page_text_blocks))
  IN IF joined = <<>> THEN [ok |-> TRUE, value |-> <<>>]
     ELSE IF kind = "fail" THEN [ok |-> FALSE, value |-> <<"aggregate call failed">>]
     ELSE [ok |-> TRUE,
           value |-> Strip(IF kind = "text" THEN <<" ", "agg", " ">> ELSE <<" ">>)]

\* ------------------------------------------------------------ initial state
ZeroCount == [p \in Pages \cup {0} |-> 0]

Callers == {1, 2}

Idle == [pc |-> "idle", page |-> 0, from_ocr |-> FALSE]

\* nothing assigned yet, the arguments of the document writer aside
BlankLocals ==
  /\ payloads = <<>> /\ idx = 0 /\ needs_ocr = <<>> /\ native_fast_path_pages = <<>>
  /\ classified = <<>>
  /\ analyses_by_page = EmptyDict
  /\ finalized_all_pages = {} /\ finalized_ocr_pages = {}
  /\ store_writes = ZeroCount
  /\ first_failures = <<>> /\ first_error_by_page = EmptyDict /\ retry_failures = <<>>
  /\ output = None /\ result = None
  /\ aggregate_log = "pending"
  /\ batch = <<>> /\ is_retry = FALSE /\ failures = <<>>
  /\ work_queue = <<>> /\ in_flight = {} /\ done_futures = EmptyDict
  /\ started = None /\ finished = FALSE
  /\ pdf_all = ZeroCount /\ global_slides = 0 /\ pdf_ocr = ZeroCount
  /\ ocr_log = EmptyDict
  /\ callers = [c \in Callers |-> Idle]
  /\ fin_calls = 0
  /\ fin_done = ZeroCount
  /\ trigger_decision = None

Blank == BlankLocals /\ analyses = <<>> /\ cleaned_aggregate = None

Init ==
  /\ \E n \in 0..MaxPages : source \in [1..n -> PageSources]
  /\ images_match \in BOOLEAN
  /\ min_native_chars \in MinNativeCharsChoices
  /\ workers \in {0, 1, MaxWorkers}
  /\ native_fast_path \in BOOLEAN
  /\ skip_aggregate_cleanup = None
  /\ dry_run \in BOOLEAN
  /\ tui \in {None, Tui}
  /\ pc = "start"
  /\ main_run = None
  /\ Blank

\* ------------------------------------------------------------- process_pdf
\* lines 105-113
Extract ==
  /\ pc = "start"
  /\ IF ~images_match
     THEN pc' = "raised" /\ UNCHANGED <<payloads, idx>>
     ELSE /\ payloads' = extract_page_payloads(source)
          /\ IF dry_run THEN pc' = "done" /\ idx' = idx
             ELSE pc' = "classify" /\ idx' = 1
  /\ UNCHANGED <<args, needs_ocr, native_fast_path_pages, classified, store,
                 passes, tail, batchv, pool, started, sink, finished, ocr_log,
                 harness>>

\* line 197 testing "not use_vision"
ClassifyPage_TestInverted ==
  /\ pc = "classify" /\ idx <= Len(payloads)
  /\ LET payload == payloads[idx]
         decision == should_call_vision_ocr(payload.native_text, payload.image_png,
                                            min_native_chars)
     IN IF native_fast_path
        THEN /\ classified' = Append(classified, idx)
             /\ IF ~decision[1]
                THEN /\ needs_ocr' = Append(needs_ocr, idx)
                     /\ UNCHANGED native_fast_path_pages
                ELSE /\ native_fast_path_pages' =
                          Append(native_fast_path_pages, <<idx, decision[2]>>)
                     /\ UNCHANGED needs_ocr
        ELSE /\ needs_ocr' = Append(needs_ocr, idx)
             /\ UNCHANGED <<native_fast_path_pages, classified>>
  /\ idx' = idx + 1
  /\ UNCHANGED <<args, pc, payloads, store, passes, tail, batchv, pool,
                 started, sink, finished, ocr_log, harness>>

\* lines 191-206, one page
ClassifyPage ==
  /\ pc = "classify" /\ idx <= Len(payloads)
  /\ LET payload == payloads[idx]
         decision == should_call_vision_ocr(payload.native_text, payload.image_png,
                                            min_native_chars)
     IN IF native_fast_path
        THEN /\ classified' = Append(classified, idx)
             /\ IF decision[1]
                THEN /\ needs_ocr' = Append(needs_ocr, idx)
                     /\ UNCHANGED native_fast_path_pages
                ELSE /\ native_fast_path_pages' =
                          Append(native_fast_path_pages, <<idx, decision[2]>>)
                     /\ UNCHANGED needs_ocr
        ELSE /\ needs_ocr' = Append(needs_ocr, idx)
             /\ UNCHANGED <<native_fast_path_pages, classified>>
  /\ idx' = idx + 1
  /\ UNCHANGED <<args, pc, payloads, store, passes, tail, batchv, pool,
                 started, sink, finished, ocr_log, harness>>

\* lines 208-209
StartPdf ==
  /\ pc = "classify" /\ idx > Len(payloads)
  /\ started' = IF tui /= None
                THEN [queued_slides |-> Len(needs_ocr), total_slides |-> Len(payloads)]
                ELSE started
  /\ pc' = "fast" /\ idx' = 1
  /\ UNCHANGED <<args, queues, store, passes, tail, batchv, pool, sink,
                 finished, ocr_log, harness>>

\* lines 211-215, one page
FastPathPage ==
  /\ pc = "fast" /\ idx <= Len(native_fast_path_pages)
  /\ LET payload == payloads[native_fast_path_pages[idx][1]]
     IN \E s \in {_finalize_page(St, payload, _build_native_only_analysis(payload),
                                  FALSE)} : SetSt(s)
  /\ idx' = idx + 1
  /\ UNCHANGED <<args, pc, queues, passes, tail, batchv, pool, started,
                 finished, ocr_log, harness>>

\* line 217: the call _process_ocr_batch(needs_ocr, is_retry=False)
CallFirstBatch ==
  /\ pc = "fast" /\ idx > Len(native_fast_path_pages)
  /\ batch' = needs_ocr /\ is_retry' = FALSE /\ failures' = <<>>
  /\ pc' = "batch"
  /\ UNCHANGED <<args, idx, queues, store, passes, tail, pool, started, sink,
                 finished, ocr_log, harness>>

\* ------------------------------------------------------ _process_ocr_batch
\* lines 154-155
BatchEmpty ==
  /\ pc = "batch" /\ batch = <<>>
  /\ pc' = "batch_return"
  /\ UNCHANGED <<args, idx, queues, store, passes, tail, batchv, pool, started,
                 sink, finished, ocr_log, harness>>

\* lines 157-159
BatchSequential ==
  /\ pc = "batch" /\ batch /= <<>> /\ max_workers = 1
  /\ pc' = "seq" /\ idx' = 1
  /\ UNCHANGED <<args, queues, store, passes, tail, batchv, pool, started,
                 sink, finished, ocr_log, harness>>

LogCall(log, i, k) ==
  Put(log, <<i, k>>,
      [kind |-> "in_flight",
       calls |-> IF <<i, k>> \in DOMAIN log THEN log[<<i, k>>].calls + 1 ELSE 1,
       native_text |-> native_context(payloads[i], min_native_chars)])

LogOutcome(log, i, k, kind) == [log EXCEPT ![<<i, k>>].kind = kind]

\* the except clause dropping the failure instead of recording it
Settle_FailureDropped(i, outcome) ==
  IF outcome.ok
  THEN /\ \E s \in {_finalize_page(St, payloads[i], outcome.value, TRUE)} : SetSt(s)
       /\ UNCHANGED failures
  ELSE UNCHANGED <<failures, store, sink>>

\* the try body and the except clause that follow a call (lines 161-169, 177-185)
Settle(i, outcome) ==
  IF outcome.ok
  THEN /\ \E s \in {_finalize_page(St, payloads[i], outcome.value, TRUE)} : SetSt(s)
       /\ UNCHANGED failures
  ELSE /\ failures' = Append(failures, <<i, outcome.value>>)
       /\ UNCHANGED <<store, sink>>

\* line 161: the main thread enters client.analyze_page
SeqCall ==
  /\ pc = "seq" /\ idx <= Len(batch)
  /\ in_flight' = in_flight \cup {batch[idx]}
  /\ ocr_log' = LogCall(ocr_log, batch[idx], Attempt(is_retry))
  /\ pc' = "seq_wait"
  /\ UNCHANGED <<args, idx, queues, store, passes, tail, batchv, work_queue,
                 done_futures, started, sink, finished, harness>>

\* the except clause leaving the loop: pages after a failed one get no call
SeqReturn_BreakOnFailure ==
  /\ pc = "seq_wait"
  /\ \E kind \in OcrOutcomes :
       LET i == batch[idx]
           k == Attempt(is_retry)
       IN /\ in_flight' = in_flight \ {i}
          /\ ocr_log' = LogOutcome(ocr_log, i, k, kind)
          /\ \E outcome \in {_analyze_payload(payloads[i], k, kind)} :
               Settle(i, outcome)
          /\ idx' = IF kind = "fail" THEN Len(batch) + 1 ELSE idx + 1
  /\ pc' = "seq"
  /\ UNCHANGED <<args, queues, passes, tail, batch, is_retry, work_queue,
                 done_futures, started, finished, harness>>

\* lines 161-169: the call returns or raises
SeqReturn ==
  /\ pc = "seq_wait"
  /\ \E kind \in OcrOutcomes :
       LET i == batch[idx]
           k == Attempt(is_retry)
       IN /\ in_flight' = in_flight \ {i}
          /\ ocr_log' = LogOutcome(ocr_log, i, k, kind)
          /\ \E outcome \in {_analyze_payload(payloads[i], k, kind)} :
               Settle(i, outcome)
  /\ idx' = idx + 1 /\ pc' = "seq"
  /\ UNCHANGED <<args, queues, passes, tail, batch, is_retry, work_queue,
                 done_futures, started, finished, harness>>

\* line 170
SeqDone ==
  /\ pc = "seq" /\ idx > Len(batch)
  /\ pc' = "batch_return"
  /\ UNCHANGED <<args, idx, queues, store, passes, tail, batchv, pool, started,
                 sink, finished, ocr_log, harness>>

\* lines 172-173: every payload of the batch is submitted to the executor
PoolSubmit ==
  /\ pc = "batch" /\ batch /= <<>> /\ max_workers > 1
  /\ work_queue' = batch
  /\ pc' = "as_completed"
  /\ UNCHANGED <<args, idx, queues, store, passes, tail, batchv, in_flight,
                 done_futures, started, sink, finished, ocr_log, harness>>

\* a pool thread takes the next work item; the pool has max_workers threads
WorkerStart ==
  /\ pc = "as_completed" /\ work_queue /= <<>>
  /\ Cardinality(in_flight) < max_workers
  /\ in_flight' = in_flight \cup {Head(work_queue)}
  /\ work_queue' = Tail(work_queue)
  /\ ocr_log' = LogCall(ocr_log, Head(work_queue), Attempt(is_retry))
  /\ UNCHANGED <<args, pc, idx, queues, store, passes, tail, batchv,
                 done_futures, started, sink, finished, harness>>

\* a pool thread finishes _analyze_payload: its future is done
WorkerFinish ==
  /\ pc = "as_completed"
  /\ \E i \in in_flight : \E kind \in OcrOutcomes :
       LET k == Attempt(is_retry)
       IN /\ in_flight' = in_flight \ {i}
          /\ ocr_log' = LogOutcome(ocr_log, i, k, kind)
          /\ \E outcome \in {_analyze_payload(payloads[i], k, kind)} :
               done_futures' = Put(done_futures, i, outcome)
  /\ UNCHANGED <<args, pc, idx, queues, store, passes, tail, batchv, work_queue,
                 started, sink, finished, harness>>

\* the except clause of the pool path alone dropping the failure
AsCompleted_FailureDropped ==
  /\ pc = "as_completed"
  /\ \E i \in DOMAIN done_futures :
       /\ Settle_FailureDropped(i, done_futures[i])
       /\ done_futures' = [j \in (DOMAIN done_futures) \ {i} |-> done_futures[j]]
  /\ UNCHANGED <<args, pc, idx, queues, passes, tail, batch, is_retry,
                 work_queue, in_flight, started, finished, ocr_log, harness>>

\* as_completed never yielding a future whose call raised
AsCompleted_FailedFutureNeverYielded ==
  /\ pc = "as_completed"
  /\ \E i \in DOMAIN done_futures :
       /\ done_futures[i].ok
       /\ Settle(i, done_futures[i])
       /\ done_futures' = [j \in (DOMAIN done_futures) \ {i} |-> done_futures[j]]
  /\ UNCHANGED <<args, pc, idx, queues, passes, tail, batch, is_retry,
                 work_queue, in_flight, started, finished, ocr_log, harness>>

\* lines 174-185: as_completed yields one done future to the main thread
AsCompleted ==
  /\ pc = "as_completed"
  /\ \E i \in DOMAIN done_futures :
       /\ Settle(i, done_futures[i])
       /\ done_futures' = [j \in (DOMAIN done_futures) \ {i} |-> done_futures[j]]
  /\ UNCHANGED <<args, pc, idx, queues, passes, tail, batch, is_retry,
                 work_queue, in_flight, started, finished, ocr_log, harness>>

\* the executor left without waiting for the calls still running
PoolExit_NoWait ==
  /\ pc = "as_completed"
  /\ work_queue = <<>> /\ DOMAIN done_futures = {}
  /\ pc' = "batch_return"
  /\ UNCHANGED <<args, idx, queues, store, passes, tail, batchv, pool, started,
                 sink, finished, ocr_log, harness>>

\* line 187: every future was yielded and the executor has shut down
PoolExit ==
  /\ pc = "as_completed"
  /\ work_queue = <<>> /\ in_flight = {} /\ DOMAIN done_futures = {}
  /\ pc' = "batch_return"
  /\ UNCHANGED <<args, idx, queues, store, passes, tail, batchv, pool, started,
                 sink, finished, ocr_log, harness>>

\* ------------------------------------------------- process_pdf, continued
\* line 223 handing every queued page to the retry pass
FailedPayloads_AllQueued(fs) == needs_ocr

\* [payload for payload, _ in first_failures]
FailedPayloads(fs) == [j \in 1..Len(fs) |-> fs[j][1]]

\* {payload.page_number: error for payload, error in first_failures}
ErrorByPage(fs) ==
  LET F[j \in 0..Len(fs)] ==
        IF j = 0 THEN EmptyDict
        ELSE Put(F[j - 1], payloads[fs[j][1]].page_number, fs[j][2])
  IN F[Len(fs)]

\* dict.get(key)
Get(d, k) == IF k \in DOMAIN d THEN d[k] ELSE None

\* line 223 calling the retry pass with an empty batch
ReturnFirst_NothingRetried ==
  /\ pc = "batch_return" /\ ~is_retry
  /\ first_failures' = failures
  /\ first_error_by_page' = ErrorByPage(failures)
  /\ batch' = <<>> /\ is_retry' = TRUE /\ failures' = <<>>
  /\ pc' = "batch"
  /\ UNCHANGED <<args, idx, queues, store, retry_failures, tail, pool, started,
                 sink, finished, ocr_log, harness>>

\* lines 217-223: the first pass returns, the retry pass is called
ReturnFirst ==
  /\ pc = "batch_return" /\ ~is_retry
  /\ first_failures' = failures
  /\ first_error_by_page' = ErrorByPage(failures)
  /\ batch' = FailedPayloads(failures) /\ is_retry' = TRUE /\ failures' = <<>>
  /\ pc' = "batch"
  /\ UNCHANGED <<args, idx, queues, store, retry_failures, tail, pool, started,
                 sink, finished, ocr_log, harness>>

\* line 239 passing from_ocr=False: a page that ended with the fallback is not
\* counted in the OCR queue
RECURSIVE Fallbacks_NotFromOcr(_, _, _, _)
Fallbacks_NotFromOcr(s, fs, errs, j) ==
  IF j > Len(fs) THEN s
  ELSE LET payload == payloads[fs[j][1]]
           retry_error == fs[j][2]
           first_error == Get(errs, payload.page_number)
       IN Fallbacks_NotFromOcr(
            IF payload.page_number \notin DOMAIN s.abp
            THEN _finalize_page(s, payload,
                                FallbackAnalysis(payload, first_error, retry_error),
                                FALSE)
            ELSE s,
            fs, errs, j + 1)

\* the fallback loop forgotten: a page that failed twice is left without an entry
Fallbacks_Forgotten(s, fs, errs, j) == s

\* lines 225-244: the loop over retry_failures, from entry j on
RECURSIVE Fallbacks(_, _, _, _)
Fallbacks(s, fs, errs, j) ==
  IF j > Len(fs) THEN s
  ELSE LET payload == payloads[fs[j][1]]
           retry_error == fs[j][2]
           first_error == Get(errs, payload.page_number)
       IN Fallbacks(IF payload.page_number \notin DOMAIN s.abp
                    THEN _finalize_page(s, payload,
                                        FallbackAnalysis(payload, first_error, retry_error),
                                        TRUE)
                    ELSE s,
                    fs, errs, j + 1)

\* lines 223-244: the retry pass returns, the pages that failed twice get the fallback
ReturnRetry ==
  /\ pc = "batch_return" /\ is_retry
  /\ retry_failures' = failures
  /\ \E s \in {Fallbacks(St, failures, first_error_by_page, 1)} : SetSt(s)
  /\ pc' = "assemble"
  /\ UNCHANGED <<args, idx, queues, first_failures, first_error_by_page, tail,
                 batchv, pool, started, finished, ocr_log, harness>>

\* sorted(..., reverse=True)
SortedAnalyses_Descending(abp) ==
  LET keys == SortedSeq(DOMAIN abp)
  IN [j \in 1..Len(keys) |-> abp[keys[Len(keys) + 1 - j]]]

\* [analyses_by_page[page_number] for page_number in sorted(analyses_by_page)]
SortedAnalyses(abp) ==
  LET keys == SortedSeq(DOMAIN abp)
  IN [j \in 1..Len(keys) |-> abp[keys[j]]]

\* line 246
Assemble ==
  /\ pc = "assemble"
  /\ analyses' = SortedAnalyses(analyses_by_page)
  /\ pc' = "aggregate"
  /\ UNCHANGED <<args, idx, queues, store, passes, cleaned_aggregate, output,
                 result, aggregate_log, batchv, pool, started, sink, finished,
                 ocr_log, harness>>

\* [item.retranscribed_text for item in analyses]
PageTextBlocks == [j \in 1..Len(analyses) |-> analyses[j].retranscribed_text]

\* the except clause of line 253 keeping the error text as the aggregate
CleanedAggregate_ErrorKept(skip, kind) ==
  IF skip THEN None
  ELSE clean_aggregate_markdown(PageTextBlocks, kind).value

\* lines 248-258, with the aggregate service failing or replying
CleanedAggregate(skip, kind) ==
  IF skip THEN None
  ELSE LET reply == clean_aggregate_markdown(PageTextBlocks, kind)
       IN IF reply.ok THEN reply.value ELSE None

\* what became of the aggregate call: "skipped" (line 249), "no_request"
\* (ollama_client.py line 125: nothing to send), or the service's outcome
AggregateCall(skip, kind) ==
  IF skip THEN "skipped"
  ELSE IF Join(BlankLine, StripEntries(PageTextBlocks)) = <<>> THEN "no_request"
  ELSE kind

\* lines 248-273.  skip_aggregate_cleanup is read here and nowhere else, so the
\* argument is drawn here.
AggregateAndWrite ==
  /\ pc = "aggregate"
  \* build_document_markdown(analyses, r[2]): the parts that do not depend on
  \* the aggregate are computed once
  /\ \E page_sections \in {PageSections(analyses)} :
     \E fallback \in {build_fallback_aggregate(analyses)} :
     \E r \in {<<skip, CleanedAggregate(skip, kind), AggregateCall(skip, kind)>> :
                skip \in BOOLEAN, kind \in AggregateOutcomes} :
       /\ skip_aggregate_cleanup' = r[1]
       /\ cleaned_aggregate' = r[2]
       /\ aggregate_log' = r[3]
       /\ output' = DocumentOf(IF r[2] /= None /\ r[2] /= <<>>
                               THEN Strip(r[2]) ELSE fallback,
                               page_sections)
  /\ finished' = (tui /= None)
  /\ result' = [total_slides |-> Len(payloads), ocr_queue_slides |-> Len(needs_ocr)]
  /\ pc' = "done"
  /\ UNCHANGED <<source, images_match, min_native_chars, workers, native_fast_path,
                 dry_run, tui, idx, queues, store, passes, analyses, batchv, pool,
                 started, sink, ocr_log, harness>>

ProcessOcrBatch ==
  \/ BatchEmpty \/ BatchSequential \/ SeqCall \/ SeqReturn \/ SeqDone
  \/ PoolSubmit \/ WorkerStart \/ WorkerFinish \/ AsCompleted \/ PoolExit

Next ==
  \/ Extract \/ ClassifyPage \/ StartPdf \/ FastPathPage \/ CallFirstBatch
  \/ ProcessOcrBatch
  \/ ReturnFirst \/ ReturnRetry \/ Assemble \/ AggregateAndWrite

Spec == Init /\ [][Next]_vars

\* The steps of the thread running process_pdf that wait for no call
MainThread ==
  \/ Extract \/ ClassifyPage \/ StartPdf \/ FastPathPage \/ CallFirstBatch
  \/ BatchEmpty \/ BatchSequential \/ SeqCall \/ SeqDone
  \/ PoolSubmit \/ AsCompleted \/ PoolExit
  \/ ReturnFirst \/ ReturnRetry \/ Assemble

\* An OCR call in progress returns or fails: the steps SeqReturn and
\* WorkerFinish as they show in the control state.  They are the only steps of
\* Next that take a page out of in_flight, so under Spec these are the same
\* steps as SeqReturn \/ WorkerFinish.
OcrCallEnds ==
  /\ \E i \in in_flight : in_flight' = in_flight \ {i}
  /\ \/ pc = "seq_wait" /\ pc' = "seq" /\ idx' = idx + 1
     \/ pc = "as_completed" /\ UNCHANGED <<pc, idx>>

\* what a step of OcrCallEnds changes
calls == <<pc, idx, in_flight>>

\* every step of process_pdf and of its pool changes one of these
progress == <<pc, idx, work_queue, in_flight, DOMAIN done_futures>>

\* The aggregate call returns or fails and the document is written: the step
\* AggregateAndWrite as it shows in the control state.  AggregateAndWrite is
\* the only step of Next that leaves pc = "aggregate", so under Spec the two
\* are the same steps.
AggregateCallEnds ==
  /\ pc = "aggregate" /\ pc' = "done"
  /\ UNCHANGED <<idx, work_queue, in_flight, done_futures>>

\* The main thread keeps running, every OCR call and the aggregate call end,
\* and an idle pool thread takes waiting work.
Fairness ==
  /\ WF_progress(MainThread)
  /\ WF_calls(OcrCallEnds)
  /\ WF_progress(AggregateCallEnds)
  /\ WF_progress(WorkerStart)

\* one page more than the pool has threads, so that a submitted page waits
\* for a free thread
LivePages == MaxWorkers + 1

\* a page with no native text: it is queued for OCR whatever the arguments
BlankPage == [text |-> <<" ">>, image |-> [visual |-> FALSE]]

\* the runs of Init, and a run of the pool path over LivePages queued pages
InitLive ==
  \/ Init
  \/ /\ source = [i \in 1..LivePages |-> BlankPage]
     /\ images_match = TRUE
     /\ min_native_chars \in MinNativeCharsChoices
     /\ workers = MaxWorkers
     /\ native_fast_path = FALSE
     /\ skip_aggregate_cleanup = None
     /\ dry_run = FALSE
     /\ tui \in {None, Tui}
     /\ pc = "start"
     /\ main_run = None
     /\ Blank

SpecLive == InitLive /\ [][Next]_vars /\ Fairness

\* --------------------------------- threads calling _finalize_page directly
\* The statements of _finalize_page taken one at a time by caller c, for a
\* store that several threads can reach.  pc of a caller is the line it is at.
HarnessDoc == [i \in 1..MaxPages |-> [text |-> <<" ">>, image |-> [visual |-> FALSE]]]

CallerAnalysis(c, p) == PageAnalysis(p, <<"c", Tok(c)>>, <<>>, <<>>)

InitFin ==
  /\ source = HarnessDoc
  /\ images_match = TRUE
  /\ min_native_chars \in MinNativeCharsChoices
  /\ workers = 1
  /\ native_fast_path = FALSE
  /\ skip_aggregate_cleanup = None
  /\ dry_run = FALSE
  /\ tui \in {None, Tui}
  /\ pc = "harness"
  /\ main_run = None
  /\ Blank

Goto(c, line) == callers' = [callers EXCEPT ![c].pc = line]

HarnessFrame ==
  UNCHANGED <<args, pc, idx, queues, passes, tail, batchv, pool, started,
              finished, ocr_log, trigger_decision, main_run>>

\* the call: alone requires every other caller to be outside _finalize_page
FinCall(c, alone) ==
  /\ pc = "harness" /\ callers[c].pc = "idle" /\ fin_calls < MaxCalls
  /\ alone => \A d \in Callers : callers[d].pc = "idle"
  /\ \E p \in 1..Len(source) : \E from_ocr \in BOOLEAN :
       callers' = [callers EXCEPT ![c] = [pc |-> "116", page |-> p, from_ocr |-> from_ocr]]
  /\ fin_calls' = fin_calls + 1
  /\ UNCHANGED <<store, sink, fin_done>>
  /\ HarnessFrame

FinReturn(c) ==
  /\ callers' = [callers EXCEPT ![c].pc = "idle"]
  /\ fin_done' = IF callers[c].from_ocr
                 THEN [fin_done EXCEPT ![callers[c].page] = @ + 1] ELSE fin_done

\* line 116
Fin116(c) ==
  /\ callers[c].pc = "116"
  /\ SetSt(FinStore(St, callers[c].page, CallerAnalysis(c, callers[c].page)))
  /\ Goto(c, "117")
  /\ UNCHANGED <<fin_calls, fin_done>>
  /\ HarnessFrame

\* line 117
Fin117(c) ==
  /\ callers[c].pc = "117"
  /\ Goto(c, IF FinAllAbsent(St, callers[c].page) THEN "118" ELSE "122")
  /\ UNCHANGED <<store, sink, fin_calls, fin_done>>
  /\ HarnessFrame

\* line 118
Fin118(c) ==
  /\ callers[c].pc = "118"
  /\ SetSt(FinAddAll(St, callers[c].page))
  /\ Goto(c, "119")
  /\ UNCHANGED <<fin_calls, fin_done>>
  /\ HarnessFrame

\* lines 119-121
Fin119(c) ==
  /\ callers[c].pc = "119"
  /\ SetSt(FinSignalAll(St, callers[c].page))
  /\ Goto(c, "122")
  /\ UNCHANGED <<fin_calls, fin_done>>
  /\ HarnessFrame

\* line 122
Fin122(c) ==
  /\ callers[c].pc = "122"
  /\ IF FinOcrAbsent(St, callers[c].page, callers[c].from_ocr)
     THEN Goto(c, "123") /\ UNCHANGED fin_done
     ELSE FinReturn(c)
  /\ UNCHANGED <<store, sink, fin_calls>>
  /\ HarnessFrame

\* line 123
Fin123(c) ==
  /\ callers[c].pc = "123"
  /\ SetSt(FinAddOcr(St, callers[c].page))
  /\ Goto(c, "124")
  /\ UNCHANGED <<fin_calls, fin_done>>
  /\ HarnessFrame

\* lines 124-125
Fin124(c) ==
  /\ callers[c].pc = "124"
  /\ SetSt(FinSignalOcr(St, callers[c].page))
  /\ FinReturn(c)
  /\ UNCHANGED fin_calls
  /\ HarnessFrame

FinStep(c) ==
  \/ Fin116(c) \/ Fin117(c) \/ Fin118(c) \/ Fin119(c)
  \/ Fin122(c) \/ Fin123(c) \/ Fin124(c)

\* one call after the other
NextFinSeq == \E c \in Callers : FinCall(c, TRUE) \/ FinStep(c)

SpecFinSeq == InitFin /\ [][NextFinSeq]_vars

\* calls from several threads at once
NextFinConc == \E c \in Callers : FinCall(c, FALSE) \/ FinStep(c)

SpecFinConc == InitFin /\ [][NextFinConc]_vars

\* ------------------------------------------- the document writer on its own
\* write_document_markdown called with any list of analyses and any aggregate
AggregateInputs == {None, <<>>, <<" ">>, <<"\n", " ">>, <<"agg">>, <<" ", "agg", "\n">>}

DocTexts == {<<>>, <<" ">>, <<"a">>, <<" ", "b", "\n">>}

DocAnalyses ==
  UNION {{[i \in 1..n |-> PageAnalysis(i, t[i], <<>>, <<>>)] : t \in [1..n -> DocTexts]} :
           n \in 0..MaxPages}

InitWriter ==
  /\ source = <<>>
  /\ images_match = TRUE
  /\ min_native_chars \in MinNativeCharsChoices
  /\ workers = 1
  /\ native_fast_path = FALSE
  /\ skip_aggregate_cleanup = None
  /\ dry_run = FALSE
  /\ tui = None
  /\ pc = "writer"
  /\ analyses \in DocAnalyses
  /\ cleaned_aggregate \in AggregateInputs
  /\ main_run = None
  /\ BlankLocals

\* writer.py lines 37-43
WriteDocument ==
  /\ pc = "writer"
  /\ output' = build_document_markdown(analyses, cleaned_aggregate)
  /\ pc' = "written"
  /\ UNCHANGED <<args, idx, queues, store, passes, analyses, cleaned_aggregate,
                 result, aggregate_log, batchv, pool, started, sink, finished,
                 ocr_log, harness>>

NextWriter == WriteDocument

SpecWriter == InitWriter /\ [][NextWriter]_vars

\* ------------------------------------------ the trigger classifier on its own
\* should_call_vision_ocr called with texts on both sides of its two length
\* thresholds.  A text is described by its compact length, by whether it
\* holds a math token and a diagram keyword, and by whether whitespace
\* surrounds it and runs of whitespace sit inside it.
TriggerLengths ==
  {0, 1, 2, 3, 4, VisualMaxChars - 1, VisualMaxChars, VisualMaxChars + 1}

TriggerMinChars == {0, 1, 3, 4, VisualMaxChars + 1}

TriggerFeatures ==
  {f \in [len : TriggerLengths, math : BOOLEAN, diagram : BOOLEAN, spaced : BOOLEAN] :
     f.len >= (IF f.math THEN 1 ELSE 0) + (IF f.diagram THEN 1 ELSE 0)}

\* the text with these features: len tokens once compacted
TriggerText(f) ==
  LET core == [i \in 1..f.len |->
                 IF i = 1 /\ f.math THEN "="
                 ELSE IF i = (IF f.math THEN 2 ELSE 1) /\ f.diagram THEN "figure"
                 ELSE IF i = 3 /\ f.spaced /\ f.len >= 4 THEN " "
                 ELSE "a"]
      inner == IF f.spaced /\ f.len >= 4
               THEN SubSeq(core, 1, 3) \o <<"\n", " ">> \o SubSeq(core, 4, f.len)
               ELSE core
  IN IF f.spaced THEN <<"\n", " ">> \o inner \o <<" ">> ELSE inner

InitTrigger ==
  /\ \E f \in TriggerFeatures : \E v \in BOOLEAN :
       source = << [text |-> TriggerText(f), image |-> [visual |-> v]] >>
  /\ images_match = TRUE
  /\ min_native_chars \in TriggerMinChars
  /\ workers = 1
  /\ native_fast_path = TRUE
  /\ skip_aggregate_cleanup = None
  /\ dry_run = FALSE
  /\ tui = None
  /\ pc = "trigger"
  /\ main_run = None
  /\ Blank

\* smart_trigger.py lines 61-81
Classify ==
  /\ pc = "trigger"
  /\ trigger_decision' = should_call_vision_ocr(source[1].text, source[1].image,
                                                min_native_chars)
  /\ pc' = "classified"
  /\ UNCHANGED <<args, idx, queues, store, passes, tail, batchv, pool, started,
                 sink, finished, ocr_log, callers, fin_calls, fin_done, main_run>>

NextTrigger == Classify

SpecTrigger == InitTrigger /\ [][NextTrigger]_vars

\* ------------------------------------------------------------------- main
\* The loop of main over the documents found.  A document is described by
\* what process_pdf and move_pdf_to_processed do with it: process_pdf raises
\* or returns (None on a dry run, else a ProcessResult), the move raises or
\* not.
Documents ==
  [raises : BOOLEAN, move_raises : BOOLEAN, total_slides : {1, MaxPages}]

PdfFileLists == UNION {[1..n -> Documents] : n \in 1..MaxDocs}

\* lines 331-334
InitMain ==
  /\ source = <<>>
  /\ images_match = TRUE
  /\ min_native_chars \in MinNativeCharsChoices
  /\ workers = 1
  /\ native_fast_path = FALSE
  /\ skip_aggregate_cleanup = None
  /\ dry_run \in BOOLEAN
  /\ tui = Tui
  /\ pc = "main"
  /\ \E files \in PdfFileLists :
       main_run = [pc |-> "for", pdf_files |-> files, i |-> 1,
                   exit_code |-> 0, documents_succeeded |-> 0,
                   slides_succeeded |-> 0, ocr_queue_succeeded |-> 0,
                   calls |-> <<>>, moved |-> {}, finish_document |-> 0,
                   returned |-> None]
  /\ Blank

MainFrame ==
  UNCHANGED <<args, pc, idx, queues, store, passes, tail, batchv, pool, started,
              sink, finished, ocr_log, callers, fin_calls, fin_done,
              trigger_decision>>

\* lines 339-352: the next document is handed to process_pdf
MainCall ==
  /\ pc = "main" /\ main_run.pc = "for" /\ main_run.i <= Len(main_run.pdf_files)
  /\ main_run' = [main_run EXCEPT !.pc = "try", !.calls = Append(@, main_run.i)]
  /\ MainFrame

\* lines 341-361: process_pdf raises or returns, and what follows its return
MainTry ==
  /\ pc = "main" /\ main_run.pc = "try"
  /\ LET doc == main_run.pdf_files[main_run.i]
     IN main_run' =
          IF doc.raises THEN [main_run EXCEPT !.pc = "except"]
          ELSE IF dry_run THEN [main_run EXCEPT !.pc = "finally"]
          ELSE IF doc.move_raises
          THEN [main_run EXCEPT !.pc = "except",
                                !.documents_succeeded = @ + 1,
                                !.slides_succeeded = @ + doc.total_slides,
                                !.ocr_queue_succeeded = @ + doc.total_slides]
          ELSE [main_run EXCEPT !.pc = "finally",
                                !.documents_succeeded = @ + 1,
                                !.slides_succeeded = @ + doc.total_slides,
                                !.ocr_queue_succeeded = @ + doc.total_slides,
                                !.moved = @ \cup {main_run.i}]
  /\ MainFrame

\* the except clause leaving the loop
MainExcept_Break ==
  /\ pc = "main" /\ main_run.pc = "except"
  /\ main_run' = [main_run EXCEPT !.pc = "finally", !.exit_code = 1,
                                  !.i = Len(main_run.pdf_files)]
  /\ MainFrame

\* lines 362-364
MainExcept ==
  /\ pc = "main" /\ main_run.pc = "except"
  /\ main_run' = [main_run EXCEPT !.pc = "finally", !.exit_code = 1]
  /\ MainFrame

\* lines 365-366
MainFinally ==
  /\ pc = "main" /\ main_run.pc = "finally"
  /\ main_run' = [main_run EXCEPT !.pc = "for", !.i = @ + 1,
                                  !.finish_document = @ + 1]
  /\ MainFrame

\* lines 370-383
MainReturn ==
  /\ pc = "main" /\ main_run.pc = "for" /\ main_run.i > Len(main_run.pdf_files)
  /\ main_run' = [main_run EXCEPT !.pc = "returned", !.returned = main_run.exit_code]
  /\ MainFrame

NextMain == MainCall \/ MainTry \/ MainExcept \/ MainFinally \/ MainReturn

SpecMain == InitMain /\ [][NextMain]_vars

\* ------------------------------------------------------------------ claims
N == Len(source)

\* process_pdf has left the fallback loop and is about to run line 246; the
\* store is not written after this point
AtAssembly == pc = "assemble"

Kind(i, k) == IF <<i, k>> \in DOMAIN ocr_log THEN ocr_log[<<i, k>>].kind ELSE "no_call"

Queued == {needs_ocr[j] : j \in 1..Len(needs_ocr)}

FailedTwice(i) == Kind(i, 1) = "fail" /\ Kind(i, 2) = "fail"

RECURSIVE SumOver(_, _)
SumOver(f, S) ==
  IF S = {} THEN 0
  ELSE LET x == CHOOSE y \in S : TRUE IN f[x] + SumOver(f, S \ {x})

\* C1: when process_pdf reaches assembly the keys of analyses_by_page are
\* exactly 1..N, whatever the fast-path setting, the worker count and the
\* pattern of OCR failures.
C1_KeysAreExactlyThePages ==
  AtAssembly => DOMAIN analyses_by_page = 1..N

\* every page of a full document failed its first attempt and its retry
C1_Witness_EveryCallFailed ==
  /\ pc = "assemble" /\ N = MaxPages /\ Len(needs_ocr) = N
  /\ \A i \in 1..N : FailedTwice(i)

\* C2: each page number triggers advance_pdf_all together with
\* advance_global_slides exactly once and advance_pdf_ocr at most once (once
\* for a queued page, never for a fast-path page); a run without a sink makes
\* no sink call.
C2_EachPageCountedOnce ==
  /\ \A p \in DOMAIN pdf_all : pdf_all[p] <= 1 /\ pdf_ocr[p] <= 1
  /\ \A p \in DOMAIN pdf_all :
       /\ pdf_all[p] = IF tui /= None /\ p \in finalized_all_pages THEN 1 ELSE 0
       /\ pdf_ocr[p] = IF tui /= None /\ p \in finalized_ocr_pages THEN 1 ELSE 0
  /\ global_slides = SumOver(pdf_all, DOMAIN pdf_all)
  /\ AtAssembly /\ tui /= None =>
       /\ \A p \in 1..N : pdf_all[p] = 1
       /\ \A i \in 1..N : pdf_ocr[payloads[i].page_number] = IF i \in Queued THEN 1 ELSE 0
       /\ global_slides = N

\* a pool run with a sink where a page failed, was retried, and pages completed
\* out of submission order
C2_Witness_PoolRunWithRetry ==
  /\ pc = "assemble" /\ tui /= None /\ workers > 1
  /\ Len(first_failures) >= 2 /\ first_failures[1][1] > first_failures[2][1]
  /\ Len(retry_failures) = 1

\* C9: the number of OCR calls in flight never exceeds max(1, workers), nor
\* the size of the batch; a worker count of zero behaves as one.
C9_InFlightWithinCap ==
  /\ Cardinality(in_flight) <= (IF workers >= 1 THEN workers ELSE 1)
  /\ Cardinality(in_flight) <= Len(batch)
  /\ workers <= 1 => work_queue = <<>> /\ DOMAIN done_futures = {}

\* the pool is full: as many calls in flight as there are workers, one waiting
C9_Witness_CapReached ==
  /\ workers > 1 /\ Cardinality(in_flight) = workers

InFinalize(c) == callers[c].pc /= "idle"

\* C3: _finalize_page invoked twice in sequence for the same page with
\* from_ocr=true emits advance_pdf_ocr once and advance_pdf_all with
\* advance_global_slides once (to a sink that is present); an invocation for a
\* page that an earlier from_ocr=true invocation completed emits nothing.
C3_SecondFinalizeIsSilent ==
  /\ [](\A p \in DOMAIN fin_done :
          fin_done[p] >= 1 =>
            /\ p \in finalized_all_pages /\ p \in finalized_ocr_pages
            /\ pdf_ocr[p] = (IF tui /= None THEN 1 ELSE 0)
            /\ pdf_all[p] = (IF tui /= None THEN 1 ELSE 0))
  /\ [][(\E c \in Callers : InFinalize(c) /\ fin_done[callers[c].page] >= 1)
          => UNCHANGED <<sink, finalized_all_pages, finalized_ocr_pages>>]_vars

\* two from_ocr=true invocations for one page have returned, the sink present
C3_Witness_FinalizedTwice ==
  /\ pc = "harness" /\ tui /= None
  /\ \E p \in DOMAIN fin_done : fin_done[p] >= 2
  /\ \A c \in Callers : ~InFinalize(c)

OkKinds == {"blank", "text"}

Page(i) == payloads[i].page_number

NativeText(i) == Strip(payloads[i].native_text)

\* what the OCR reply to attempt k of page i amounts to once it is an analysis
ReplyAnalysis(i, k) ==
  PageAnalysis(Page(i),
               IF Kind(i, k) = "text" THEN <<"o", Tok(Page(i)), Tok(k)>> ELSE NativeText(i),
               << <<"m", Tok(Page(i)), Tok(k)>> >>,
               << <<"i", Tok(Page(i)), Tok(k)>> >>)

FallbackText(i) == IF NativeText(i) /= <<>> THEN NativeText(i) ELSE NoTextAtAll

Diagnostics(i) == << FirstErrorPrefix \o OcrError(Page(i), 1),
                     RetryErrorPrefix \o OcrError(Page(i), 2) >>

HasDiagnostics(a) ==
  \E j \in 1..Len(a.image_descriptions) :
    a.image_descriptions[j][1] \in {FirstErrorPrefix[1], RetryErrorPrefix[1]}

RecoveredOnRetry(i) == i \in Queued /\ Kind(i, 1) = "fail" /\ Kind(i, 2) \in OkKinds

C6_DoubleFailureGetsFallback ==
  AtAssembly =>
    \A i \in 1..Len(payloads) :
      (i \in Queued /\ FailedTwice(i)) =>
        /\ Page(i) \in DOMAIN analyses_by_page
        /\ analyses_by_page[Page(i)] =
             PageAnalysis(Page(i), FallbackText(i), <<>>, Diagnostics(i))
        /\ Page(i) \in finalized_all_pages /\ Page(i) \in finalized_ocr_pages

\* two pages failed twice, one with native text and one without
C6_Witness_BothFallbackTexts ==
  /\ pc = "assemble"
  /\ \E i \in Queued : FailedTwice(i) /\ NativeText(i) = <<>>
  /\ \E i \in Queued : FailedTwice(i) /\ NativeText(i) /= <<>>

\* the analysis of page i as a function of the page and of the outcomes of its
\* own OCR calls
ShouldQueue(i) ==
  \/ ~native_fast_path
  \/ should_call_vision_ocr(payloads[i].native_text, payloads[i].image_png,
                            min_native_chars)[1]

Expected(i) ==
  IF ~ShouldQueue(i)
  THEN PageAnalysis(Page(i), OrElse(NativeText(i), NoNativeText), <<>>, <<FastPathNote>>)
  ELSE IF Kind(i, 1) \in OkKinds THEN ReplyAnalysis(i, 1)
  ELSE IF Kind(i, 2) \in OkKinds THEN ReplyAnalysis(i, 2)
  ELSE PageAnalysis(Page(i), FallbackText(i), <<>>, Diagnostics(i))

ExpectedAnalyses == [i \in 1..N |-> Expected(i)]

\* C7: the list passed to assembly is a function of the pages and of the
\* per-call OCR outcomes alone, in ascending page_number order, whatever the
\* order in which the calls completed; so is the output text, built from that
\* list and the aggregate.
C7_AssemblyIgnoresCompletionOrder ==
  (pc \in {"aggregate", "done"} /\ ~dry_run) =>
    /\ analyses = ExpectedAnalyses
    /\ \A j \in 1..Len(analyses) : analyses[j].page_number = j
    /\ pc = "done" => output = build_document_markdown(analyses, cleaned_aggregate)

\* the higher page was settled before the lower one in both passes
C7_Witness_FinalizedOutOfOrder ==
  /\ pc = "done" /\ ~dry_run /\ workers > 1
  /\ Len(first_failures) >= 2 /\ first_failures[1][1] > first_failures[2][1]
  /\ retry_failures = <<>>

\* the store after the passes run so far, from the outcomes alone
Settled(i) ==
  \/ ~ShouldQueue(i)
  \/ Kind(i, 1) \in OkKinds
  \/ Kind(i, 2) \in OkKinds

SettledPages == {Page(i) : i \in {j \in 1..Len(payloads) : Settled(j)}}

FailedInBatch == {batch[j] : j \in {x \in 1..Len(batch) : Kind(batch[x], Attempt(is_retry)) = "fail"}}

\* C8: when _process_ocr_batch returns, the store, the marker sets, the
\* signal counts and the set of failed pages are the same function of the
\* batch and of the per-page outcomes on the sequential path and on the pool
\* path, under every scheduling.
C8_BatchOutcomeIgnoresPath ==
  pc = "batch_return" =>
    /\ DOMAIN analyses_by_page = SettledPages
    /\ \A i \in 1..Len(payloads) : Settled(i) => analyses_by_page[Page(i)] = Expected(i)
    /\ finalized_all_pages = SettledPages
    /\ finalized_ocr_pages = {Page(i) : i \in {j \in Queued : Settled(j)}}
    /\ \A p \in DOMAIN pdf_all :
         /\ pdf_all[p] = IF tui /= None /\ p \in SettledPages THEN 1 ELSE 0
         /\ pdf_ocr[p] = IF tui /= None /\ p \in finalized_ocr_pages THEN 1 ELSE 0
    /\ global_slides = IF tui /= None THEN Cardinality(SettledPages) ELSE 0
    /\ {failures[j][1] : j \in 1..Len(failures)} = FailedInBatch
    /\ Len(failures) = Cardinality(FailedInBatch)
    /\ \A j \in 1..Len(failures) :
         failures[j][2] = OcrError(Page(failures[j][1]), Attempt(is_retry))

\* the pool returns from a retry batch whose calls it took in an order the
\* sequential path cannot produce, one page recovered and one failed again
C8_Witness_PoolBatchReturns ==
  /\ pc = "batch_return" /\ workers > 1 /\ is_retry
  /\ Len(batch) >= 2 /\ batch[1] > batch[2]
  /\ Len(failures) = 1 /\ finalized_ocr_pages /= {}

\* C10: a failing page is isolated: every queued page gets its own OCR call,
\* a page whose call succeeded holds the analysis built from its own result
\* whatever happens to the others, and no OCR failure keeps process_pdf from
\* assembling and writing the document.
C10_FailureIsIsolated ==
  /\ \A i \in 1..Len(payloads) : \A k \in {1, 2} :
       (Kind(i, k) \in OkKinds /\ i \notin DOMAIN done_futures
          /\ (k = 2 => Kind(i, 1) = "fail")) =>
         /\ Page(i) \in DOMAIN analyses_by_page
         /\ analyses_by_page[Page(i)] = ReplyAnalysis(i, k)
  /\ pc \in {"assemble", "aggregate", "done"} /\ ~dry_run =>
       /\ \A i \in Queued : Kind(i, 1) \in OkKinds \cup {"fail"}
       /\ \A i \in Queued : Kind(i, 1) = "fail" => Kind(i, 2) \in OkKinds \cup {"fail"}
       /\ DOMAIN analyses_by_page = 1..N
  /\ pc = "done" /\ ~dry_run => output /= None /\ Len(analyses) = N
  /\ pc = "raised" => ~images_match

\* the document is written although the first page failed twice, and the page
\* after it holds the analysis of its own first call
C10_Witness_SiblingUnaffected ==
  /\ pc = "done" /\ ~dry_run /\ N >= 2
  /\ FailedTwice(1) /\ Kind(2, 1) \in OkKinds

\* C11: when the aggregate-cleanup call fails, process_pdf takes the aggregate
\* as None, the store still holds for every page the analysis that was passed
\* to assembly, and the document is written with the fallback aggregate as the
\* body of its Clean Aggregate section.
C11_AggregateFailureFallsBack ==
  (pc = "done" /\ aggregate_log = "fail") =>
    /\ cleaned_aggregate = None
    /\ DOMAIN analyses_by_page = 1..N
    /\ analyses = SortedAnalyses(analyses_by_page)
    /\ \A i \in 1..N : analyses_by_page[Page(i)] = Expected(i)
    /\ output /= None
    /\ output = DocumentOf(build_fallback_aggregate(analyses), PageSections(analyses))
    /\ result = [total_slides |-> N, ocr_queue_slides |-> Len(needs_ocr)]

\* the aggregate call failed for a full document, one page of which had
\* already failed both OCR attempts
C11_Witness_AggregateCallFailed ==
  /\ pc = "done" /\ aggregate_log = "fail" /\ N = MaxPages
  /\ \E i \in Queued : FailedTwice(i)
  /\ \E i \in Queued : Kind(i, 1) = "text"

\* the text between two headings of a document, trimmed
IndexOf(doc, token) == CHOOSE i \in 1..Len(doc) : doc[i] = token

CleanAggregateBody(doc) ==
  Strip(SubSeq(doc, IndexOf(doc, "## Clean Aggregate") + 1,
               IndexOf(doc, "## Per-Slide Details") - 1))

\* C12: in the document build_document_markdown returns, the body of the Clean
\* Aggregate section is the trimmed aggregate when the aggregate is neither
\* None nor blank, and the fallback aggregate when it is None, empty or
\* whitespace-only; the body is never empty.
C12_BodyIsAggregateOrFallback ==
  pc = "written" =>
    LET body == CleanAggregateBody(output)
        blank == cleaned_aggregate = None \/ Strip(cleaned_aggregate) = <<>>
    IN /\ body = IF blank THEN build_fallback_aggregate(analyses)
                  ELSE Strip(cleaned_aggregate)
       /\ body /= <<>>

\* the first rule of the fixed order that matches a text with features f
FirstMatch(f, visual, min_chars) ==
  IF f.len < min_chars THEN <<TRUE, "weak_native_text">>
  ELSE IF f.math THEN <<TRUE, "math_detected">>
  ELSE IF f.diagram THEN <<TRUE, "diagram_keyword_detected">>
  ELSE IF f.len < 450 /\ visual THEN <<TRUE, "visual_structure_detected">>
  ELSE <<FALSE, "native_text_only">>

\* C13: should_call_vision_ocr returns the decision of the first matching rule
\* in the order weak_native_text, math_detected, diagram_keyword_detected,
\* visual_structure_detected, native_text_only, for every combination of
\* compact length, math match, diagram match and visual structure; a compact
\* length equal to min_native_chars is not weak, one character fewer is.
C13_FirstMatchingRuleWins ==
  pc = "classified" =>
    \A f \in TriggerFeatures :
      source[1].text = TriggerText(f) =>
        /\ trigger_decision = FirstMatch(f, source[1].image.visual, min_native_chars)
        /\ f.len = min_native_chars => trigger_decision[2] /= "weak_native_text"
        /\ f.len = min_native_chars - 1 => trigger_decision[2] = "weak_native_text"

\* a text of exactly min_native_chars characters that matches the math, the
\* diagram and the visual rule was classified math_detected
C13_Witness_ThresholdTextMatchingThreeRules ==
  /\ pc = "classified" /\ min_native_chars = 3
  /\ Len(Compact(source[1].text)) = min_native_chars
  /\ has_math_indicators(source[1].text) /\ has_diagram_keywords(source[1].text)
  /\ source[1].image.visual
  /\ trigger_decision = <<TRUE, "math_detected">>

\* document j of main's list failed: process_pdf raised, or the move did
DocumentFailed(j) ==
  \/ main_run.pdf_files[j].raises
  \/ ~dry_run /\ main_run.pdf_files[j].move_raises

\* C14: in main an error raised while one document is processed stays with
\* that document: process_pdf is called for every document of the list, in
\* order and once each, and the status returned is non-zero if a document
\* failed and zero if none did.
C14_DocumentErrorIsConfined ==
  /\ main_run.pc = "returned" =>
       /\ main_run.calls = [j \in 1..Len(main_run.pdf_files) |-> j]
       /\ main_run.finish_document = Len(main_run.pdf_files)
       /\ (main_run.returned /= 0) <=> (\E j \in 1..Len(main_run.pdf_files) : DocumentFailed(j))
  /\ \A j \in 1..Len(main_run.calls) : main_run.calls[j] = j
  /\ main_run.pc = "for" => Len(main_run.calls) = main_run.i - 1

\* main returned after its first document failed and a later one succeeded
C14_Witness_FailureThenSuccess ==
  /\ main_run.pc = "returned" /\ ~dry_run
  /\ Len(main_run.pdf_files) >= 2
  /\ main_run.pdf_files[1].raises
  /\ Len(main_run.pdf_files) \in main_run.moved

\* C15 as claimed: the two finalize-marker sets are disjoint in every
\* reachable state: no page number is a member of both.
C15_Original_MarkerSetsDisjoint ==
  finalized_all_pages \cap finalized_ocr_pages = {}

\* C15 amended: the two marker sets are not disjoint but nested: the OCR set
\* is a subset of the all-pages set (a page finalized with from_ocr=true is in
\* both) and holds queued pages only; each page number enters each set at
\* most once, no page ever leaving a set it has entered.
C15_MarkerSetsNested ==
  /\ [](/\ finalized_ocr_pages \subseteq finalized_all_pages
        /\ finalized_all_pages \subseteq 1..N
        /\ finalized_ocr_pages \subseteq {Page(i) : i \in Queued})
  /\ [][/\ finalized_all_pages \subseteq finalized_all_pages'
         /\ finalized_ocr_pages \subseteq finalized_ocr_pages']_vars

\* a queued page is in both sets next to a fast-path page that is in the
\* all-pages set alone
C15_Witness_PageInBothSets ==
  /\ pc = "assemble"
  /\ finalized_ocr_pages /= {}
  /\ finalized_all_pages \ finalized_ocr_pages /= {}

\* the aggregate as a function of the pages' expected analyses and of what
\* became of the aggregate call
ExpectedAggregate ==
  IF aggregate_log = "skipped" THEN None
  ELSE LET reply == clean_aggregate_markdown(
                      [j \in 1..N |-> Expected(j).retranscribed_text],
                      IF aggregate_log = "no_request" THEN "text" ELSE aggregate_log)
       IN IF reply.ok THEN reply.value ELSE None

\* C16: the sink does not influence the pipeline: whether tui is None or
\* present, a run ends with the store, the list passed to assembly, the
\* output document and the ProcessResult that the pages and the OCR and
\* aggregate outcomes alone determine.
C16_SinkDoesNotInfluence ==
  /\ (pc = "done" /\ ~dry_run) =>
       /\ DOMAIN analyses_by_page = 1..N
       /\ \A i \in 1..N : analyses_by_page[Page(i)] = Expected(i)
       /\ finalized_all_pages = 1..N
       /\ finalized_ocr_pages = {Page(i) : i \in {j \in 1..N : ShouldQueue(j)}}
       /\ analyses = ExpectedAnalyses
       /\ cleaned_aggregate = ExpectedAggregate
       /\ output = build_document_markdown(ExpectedAnalyses, ExpectedAggregate)
       /\ result = [total_slides |-> N,
                    ocr_queue_slides |-> Cardinality({j \in 1..N : ShouldQueue(j)})]
  /\ (pc = "done" /\ dry_run) => result = None /\ output = None

\* a run without a sink wrote a full document after an OCR failure, a retry
\* and an aggregate reply
C16_Witness_RunWithoutSink ==
  /\ pc = "done" /\ ~dry_run /\ tui = None /\ N = MaxPages
  /\ \E i \in Queued : RecoveredOnRetry(i)
  /\ native_fast_path_pages /= <<>>
  /\ aggregate_log = "text"

FastPathIndexes == {native_fast_path_pages[j][1] : j \in 1..Len(native_fast_path_pages)}

\* C17: the store entry of a page is written once and never again: at most
\* one write per page in every reachable state, exactly one for every page at
\* assembly; the fallback writes only pages that had no entry, and a
\* fast-path page is never finalized by the OCR path.
C17_EachPageWrittenOnce ==
  /\ \A p \in DOMAIN store_writes :
       /\ store_writes[p] <= 1
       /\ store_writes[p] = 1 <=> p \in DOMAIN analyses_by_page
  /\ AtAssembly => \A p \in 1..N : store_writes[p] = 1
  /\ \A i \in FastPathIndexes :
       /\ Page(i) \notin finalized_ocr_pages
       /\ Kind(i, 1) = "no_call" /\ Kind(i, 2) = "no_call"
       /\ Page(i) \in DOMAIN analyses_by_page =>
            analyses_by_page[Page(i)] = _build_native_only_analysis(payloads[i])

\* at assembly one page holds the double-failure fallback and the other was
\* finalized on the fast path
C17_Witness_FallbackNextToFastPath ==
  /\ pc = "assemble" /\ N = MaxPages
  /\ \E i \in Queued : FailedTwice(i)
  /\ FastPathIndexes /= {}

\* the classification loop is over
Classified == pc \notin {"start", "classify", "raised"} /\ ~dry_run /\ payloads /= <<>>

\* the fast-path loop is over
FastPathDone ==
  Classified /\ ~(pc = "fast" /\ idx <= Len(native_fast_path_pages))

\* C18: every page goes to exactly one of the OCR queue and the fast path; a
\* page is queued exactly when the fast path is disabled or the classifier
\* returns use_vision = true; any other page is finalized with the
\* native-only analysis and from_ocr = false and gets no OCR call; with the
\* fast path disabled the classifier is not called and all N pages are queued.
C18_EachPageRoutedOnce ==
  /\ Queued \cap FastPathIndexes = {}
  /\ Len(needs_ocr) = Cardinality(Queued)
  /\ Len(native_fast_path_pages) = Cardinality(FastPathIndexes)
  /\ pc = "classify" => Queued \cup FastPathIndexes = 1..(idx - 1)
  /\ Classified =>
       /\ Queued \cup FastPathIndexes = 1..N
       /\ \A i \in 1..N : i \in Queued <=> ShouldQueue(i)
  /\ native_fast_path /\ Classified => classified = [j \in 1..N |-> j]
  /\ ~native_fast_path =>
       /\ classified = <<>>
       /\ Classified => needs_ocr = [j \in 1..N |-> j]
  /\ \A i \in FastPathIndexes : Kind(i, 1) = "no_call" /\ Kind(i, 2) = "no_call"
  /\ FastPathDone =>
       \A i \in FastPathIndexes :
         /\ Page(i) \in DOMAIN analyses_by_page
         /\ analyses_by_page[Page(i)] = _build_native_only_analysis(payloads[i])
         /\ Page(i) \in finalized_all_pages /\ Page(i) \notin finalized_ocr_pages
         /\ pdf_ocr[Page(i)] = 0

\* with the fast path enabled one page was queued by the classifier and the
\* page after it went to the fast path
C18_Witness_OnePageEachWay ==
  /\ pc = "assemble" /\ native_fast_path
  /\ needs_ocr = <<1>> /\ FastPathIndexes = {2}

\* the number of OCR calls made so far
TotalCalls == SumOver([c \in DOMAIN ocr_log |-> ocr_log[c].calls], DOMAIN ocr_log)

FailedFirst == {i \in Queued : Kind(i, 1) = "fail"}

\* C19: every queued page gets exactly one OCR call in the first pass, a
\* second one exactly when its first call failed, and never a third; the
\* retry batch is the set of pages that failed the first pass, there is one
\* retry pass, and a run makes at most twice as many calls as pages queued.
C19_OneCallThenOneRetry ==
  /\ \A c \in DOMAIN ocr_log :
       /\ ocr_log[c].calls = 1
       /\ c[1] \in Queued /\ c[2] \in {1, 2}
       /\ c[2] = 2 => Kind(c[1], 1) = "fail"
  /\ TotalCalls <= 2 * Len(needs_ocr)
  /\ is_retry =>
       /\ \A i \in Queued : Kind(i, 1) \in OcrOutcomes
       /\ {batch[j] : j \in 1..Len(batch)} = FailedFirst
       /\ Len(batch) = Cardinality(FailedFirst)
  /\ AtAssembly =>
       /\ \A i \in Queued : Kind(i, 2) \in OcrOutcomes <=> Kind(i, 1) = "fail"
       /\ \A i \in Queued : Kind(i, 2) \in OcrOutcomes \cup {"no_call"}
       /\ TotalCalls = Len(needs_ocr) + Cardinality(FailedFirst)

\* of two queued pages one was called once and the other, whose first call
\* failed, twice
C19_Witness_OneRetried ==
  /\ pc = "assemble" /\ Len(needs_ocr) = MaxPages
  /\ Cardinality(FailedFirst) = 1
  /\ TotalCalls = MaxPages + 1

\* C20: process_pdf terminates: when every OCR call and the aggregate call
\* returns or fails and the pool threads are scheduled fairly, every run comes
\* to its end, and a run that got past extraction (no mismatch of the page
\* images, no dry run) ends with every page finalized and stored and the
\* output document written, whatever calls fail.
RunEnded ==
  \/ pc = "raised"
  \/ /\ pc = "done"
     /\ \/ dry_run
        \/ /\ finalized_all_pages = 1..N
           /\ DOMAIN analyses_by_page = 1..N
           /\ output /= None

C20_ProcessPdfTerminates == <>RunEnded

\* the pool came to the end of a run with more queued pages than threads in
\* which every call failed twice and the aggregate call failed
C20_Witness_EndAfterEveryFailure ==
  /\ pc = "done" /\ ~dry_run
  /\ max_workers > 1 /\ Len(needs_ocr) > max_workers
  /\ \A i \in Queued : FailedTwice(i)
  /\ aggregate_log = "fail"
  /\ RunEnded

\* an OCR call of attempt k (1 = first pass, 2 = retry) has started
CallStarted(k) == \E i \in Queued : Kind(i, k) /= "no_call"

\* a call of attempt k is still running
CallRunning(k) == \E i \in Queued : Kind(i, k) = "in_flight"

\* the fallback loop has finalized a page
FallbackFinalized ==
  \E p \in DOMAIN analyses_by_page : HasDiagnostics(analyses_by_page[p])

\* line 246 is about to run, is running or has run, or the aggregate call has
\* been made
AssemblyStarted ==
  \/ pc \in {"assemble", "aggregate", "done"} /\ ~dry_run
  \/ analyses /= <<>>
  \/ aggregate_log /= "pending"

\* C21: the phases of a run are strictly ordered: once an OCR call has
\* started every fast-path page is finalized; once a retry call has started
\* every first-pass call has completed; once the fallback has finalized a
\* page every first-pass and every retry call has completed; and once
\* assembly or the aggregate call has started all N pages are finalized and
\* no call is running.
C21_PhasesAreOrdered ==
  /\ (CallStarted(1) \/ CallStarted(2)) =>
       /\ FastPathDone
       /\ \A i \in FastPathIndexes :
            Page(i) \in finalized_all_pages /\ Page(i) \in DOMAIN analyses_by_page
  /\ CallStarted(2) =>
       /\ is_retry
       /\ \A i \in Queued : Kind(i, 1) \in OcrOutcomes
  /\ FallbackFinalized =>
       /\ ~CallRunning(1) /\ ~CallRunning(2) /\ in_flight = {}
       /\ \A i \in Queued : Kind(i, 1) \in OcrOutcomes
       /\ \A i \in FailedFirst : Kind(i, 2) \in OcrOutcomes
  /\ AssemblyStarted =>
       /\ finalized_all_pages = 1..N
       /\ DOMAIN analyses_by_page = 1..N
       /\ ~CallRunning(1) /\ ~CallRunning(2) /\ in_flight = {}
       /\ work_queue = <<>> /\ DOMAIN done_futures = {}

\* a run went through every phase: a fast-path page, a queued page whose two
\* calls failed and which the fallback finalized, assembly, the aggregate call
C21_Witness_EveryPhaseRan ==
  /\ pc = "done" /\ ~dry_run
  /\ FastPathIndexes /= {}
  /\ \E i \in Queued : FailedTwice(i)
  /\ FallbackFinalized
  /\ aggregate_log \in AggregateOutcomes

\* the page numbers of the queued pages
QueuedPages == {Page(i) : i \in Queued}

\* C22: the two completion counts end at their announced totals: in every
\* reachable state the OCR-finalized set is a subset of the queued pages and
\* the all-finalized set is the key set of the store; at assembly, with a
\* sink present, the all-pages signals number N = total_slides and the
\* OCR-queue signals number queued_slides = ocr_queue_slides, one for every
\* queued page, a page that ended with the fallback included, and none for a
\* fast-path page.
C22_CountsReachAnnouncedTotals ==
  /\ Classified => finalized_ocr_pages \subseteq QueuedPages
  /\ ~Classified => finalized_ocr_pages = {}
  /\ finalized_all_pages = DOMAIN analyses_by_page
  /\ (AtAssembly /\ tui /= None) =>
       /\ started = [queued_slides |-> Len(needs_ocr), total_slides |-> N]
       /\ SumOver(pdf_all, DOMAIN pdf_all) = started.total_slides
       /\ global_slides = started.total_slides
       /\ SumOver(pdf_ocr, DOMAIN pdf_ocr) = started.queued_slides
       /\ finalized_ocr_pages = QueuedPages
       /\ \A i \in 1..N : pdf_ocr[Page(i)] = IF i \in Queued THEN 1 ELSE 0
       /\ \A i \in FastPathIndexes : pdf_ocr[Page(i)] = 0 /\ i \notin Queued
       /\ \A i \in Queued : FailedTwice(i) => pdf_ocr[Page(i)] = 1
  /\ (pc = "done" /\ ~dry_run) =>
       /\ result.total_slides = N /\ result.ocr_queue_slides = Len(needs_ocr)
       /\ Cardinality(finalized_all_pages) = result.total_slides
       /\ Cardinality(finalized_ocr_pages) = result.ocr_queue_slides

\* with a sink present, assembly was reached by a document with a fast-path
\* page and a queued page that ended with the fallback
C22_Witness_FallbackCounted ==
  /\ AtAssembly /\ tui /= None
  /\ FastPathIndexes /= {}
  /\ \E i \in Queued : FailedTwice(i) /\ pdf_ocr[Page(i)] = 1
  /\ SumOver(pdf_ocr, DOMAIN pdf_ocr) = Len(needs_ocr)
  /\ global_slides = N

====
